---- MODULE Spec2Model ----
(***************************************************************************)
(* A model of gwpy/detector/channel.py: the Channel attribute record, the  *)
(* channel-name parser parse_channel_name and the ChannelList queries find *)
(* and sieve.                                                              *)
(*                                                                         *)
(* Python values are records [kind, s, n] of one shape, so that any two of *)
(* them can be compared: kind names the Python type, s holds the characters*)
(* of a str (one one-character string per element) or the one-word label of*)
(* a type or unit object, and n holds the number of an int/float or of a   *)
(* Quantity.                                                               *)
(***************************************************************************)
EXTENDS Integers, Sequences, FiniteSets, TLC

VARIABLES pname, pres, chan, assigned, last, clist, res, conn

vars == <<pname, pres, chan, assigned, last, clist, res, conn>>

----------------------------------------------------------------------------
(* Python values *)

NoneV == [kind |-> "none", s |-> <<>>, n |-> 0]
StrV(s) == [kind |-> "str", s |-> s, n |-> 0]
NumV(n) == [kind |-> "num", s |-> <<>>, n |-> n]
TypeV(t) == [kind |-> "type", s |-> <<t>>, n |-> 0]
UnitV(u) == [kind |-> "unit", s |-> <<u>>, n |-> 0]
QuantityV(n, u) == [kind |-> "quantity", s |-> <<u>>, n |-> n]

IsNone(v) == v.kind = "none"

\* Python truth value, as tested by `not x`, `x or y`, `x and y`.
PyTruth(v) ==
    CASE v.kind = "none" -> FALSE
      [] v.kind = "str" -> v.s # <<>>
      [] v.kind = "num" -> v.n # 0
      [] OTHER -> TRUE

\* x or y
PyOr(x, y) == IF PyTruth(x) THEN x ELSE y

Upper == {"A", "B", "C", "D", "E", "F", "G", "H", "I", "J", "K", "L", "M",
          "N", "O", "P", "Q", "R", "S", "T", "U", "V", "W", "X", "Y", "Z"}
Digit == {"0", "1", "2", "3", "4", "5", "6", "7", "8", "9"}

----------------------------------------------------------------------------
(* parse_channel_name *)

\* The index of the first element of s that lies in set cs, 0 when none does.
RECURSIVE FirstIn(_, _, _)
FirstIn(s, cs, i) ==
    IF i > Len(s) THEN 0
    ELSE IF s[i] \in cs THEN i
    ELSE FirstIn(s, cs, i + 1)

\* _re_ifo.match(name): "[A-Z]\d:" anchored at the start of the string.
ReIfoMatch(s) ==
    /\ Len(s) >= 3
    /\ s[1] \in Upper
    /\ s[2] \in Digit
    /\ s[3] = ":"

\* name.split(":", 1) on a string that holds a colon: <<before, after>>.
SplitColonOnce(s) ==
    LET k == FirstIn(s, {":"}, 1)
    IN  <<SubSeq(s, 1, k - 1), SubSeq(s, k + 1, Len(s))>>

\* _re_cchar.split(name, maxsplit) with _re_cchar = "[-_]": each split consumes
\* one delimiter, scanning left to right; the last piece is the unsplit rest.
RECURSIVE ReCcharSplit(_, _)
ReCcharSplit(s, maxsplit) ==
    LET k == FirstIn(s, {"-", "_"}, 1)
    IN  IF maxsplit = 0 \/ k = 0 THEN <<s>>
        ELSE <<SubSeq(s, 1, k - 1)>>
                 \o ReCcharSplit(SubSeq(s, k + 1, Len(s)), maxsplit - 1)

MaxSplit == 3

NoTags == [ifo |-> NoneV, system |-> NoneV, subsystem |-> NoneV,
           signal |-> NoneV]

parse_channel_name_nostrip(name) ==
    IF ~PyTruth(name) THEN NoTags
    ELSE
        LET matched == ReIfoMatch(name.s)
            ifo == IF matched THEN StrV(SplitColonOnce(name.s)[1]) ELSE NoneV
            tags == ReCcharSplit(name.s, MaxSplit)
        IN  [ifo |-> ifo,
             system |-> StrV(tags[1]),
             subsystem |-> IF Len(tags) > 1 THEN StrV(tags[2]) ELSE NoneV,
             signal |-> IF Len(tags) > 2 THEN StrV(tags[3]) ELSE NoneV]

parse_channel_name(name) ==
    IF ~PyTruth(name) THEN NoTags
    ELSE
        LET matched == ReIfoMatch(name.s)
            ifo == IF matched THEN StrV(SplitColonOnce(name.s)[1]) ELSE NoneV
            rest == IF matched THEN SplitColonOnce(name.s)[2] ELSE name.s
            tags == ReCcharSplit(rest, MaxSplit)
        IN  [ifo |-> ifo,
             system |-> StrV(tags[1]),
             subsystem |-> IF Len(tags) > 1 THEN StrV(tags[2]) ELSE NoneV,
             signal |-> IF Len(tags) > 2 THEN StrV(tags[3]) ELSE NoneV]

----------------------------------------------------------------------------
(* Inputs of the parser: a head of up to three characters that may or may  *)
(* not form an observatory prefix, followed by a tail of letters and       *)
(* delimiters.                                                             *)

MaxTail == 6

HeadAlphabet == {"H", "1", ":"}
TailAlphabet == {"a", "-", "_"}

Heads == {<<>>, <<"h", "1", ":">>} \cup [1..1 -> HeadAlphabet]
             \cup [1..2 -> HeadAlphabet] \cup [1..3 -> HeadAlphabet]
Tails == UNION {[1..k -> TailAlphabet] : k \in 0..MaxTail}

ParseInputs == {NoneV} \cup {StrV(h \o t) : h \in Heads, t \in Tails}

NotParsed == [done |-> FALSE, out |-> NoTags]

----------------------------------------------------------------------------
(* Conversions of Python values *)

\* str(v), as a sequence of characters.
RECURSIVE Decimal(_)
Decimal(n) ==
    LET d == <<"0", "1", "2", "3", "4", "5", "6", "7", "8", "9">>
    IN  IF n < 10 THEN <<d[n + 1]>>
        ELSE Decimal(n \div 10) \o <<d[(n % 10) + 1]>>

PyStr(v) ==
    CASE v.kind = "str" -> v.s
      [] v.kind = "none" -> <<"N", "o", "n", "e">>
      [] v.kind = "num" -> IF v.n < 0 THEN <<"-">> \o Decimal(-v.n)
                           ELSE Decimal(v.n)
      [] OTHER -> v.s

\* The number a string of decimal digits denotes.
RECURSIVE DigitsValue(_)
DigitsValue(s) ==
    IF s = <<>> THEN 0
    ELSE LET c == s[Len(s)]
             v == CHOOSE k \in 0..9 : Decimal(k) = <<c>>
         IN  10 * DigitsValue(SubSeq(s, 1, Len(s) - 1)) + v

IsDigits(s) == s # <<>> /\ \A i \in 1..Len(s) : s[i] \in Digit

\* float(v): [err, n].  A str converts when it is an optionally signed run of
\* digits and raises ValueError otherwise; a Quantity converts to its value;
\* None and objects with no __float__ raise TypeError.
PyFloat(v) ==
    CASE v.kind = "num" -> [err |-> "ok", n |-> v.n]
      [] v.kind = "quantity" -> [err |-> "ok", n |-> v.n]
      [] v.kind = "str" ->
            IF IsDigits(v.s) THEN [err |-> "ok", n |-> DigitsValue(v.s)]
            ELSE IF Len(v.s) > 1 /\ v.s[1] = "-" /\ IsDigits(Tail(v.s))
                 THEN [err |-> "ok", n |-> -DigitsValue(Tail(v.s))]
            ELSE [err |-> "ValueError", n |-> 0]
      [] OTHER -> [err |-> "TypeError", n |-> 0]

\* s.lower()
UpperSeq == <<"A", "B", "C", "D", "E", "F", "G", "H", "I", "J", "K", "L", "M",
              "N", "O", "P", "Q", "R", "S", "T", "U", "V", "W", "X", "Y", "Z">>
LowerSeq == <<"a", "b", "c", "d", "e", "f", "g", "h", "i", "j", "k", "l", "m",
              "n", "o", "p", "q", "r", "s", "t", "u", "v", "w", "x", "y", "z">>

LowerChar(c) ==
    IF c \in Upper THEN LowerSeq[CHOOSE i \in 1..Len(UpperSeq) : UpperSeq[i] = c]
    ELSE c

PyLower(v) == StrV([i \in 1..Len(v.s) |-> LowerChar(v.s[i])])

----------------------------------------------------------------------------
(* class Channel *)

\* A variable that holds no Channel yet, and a Channel object before __init__
\* has set any attribute.
NoObject == [live |-> FALSE, name |-> NoneV, ifo |-> NoneV, system |-> NoneV,
             subsystem |-> NoneV, signal |-> NoneV, sample_rate |-> NoneV,
             unit |-> NoneV, dtype |-> NoneV, model |-> NoneV]
NewObject == [NoObject EXCEPT !.live = TRUE]

\* isinstance(ch, Channel)
IsChannel(ch) == "live" \in DOMAIN ch

Ok(c) == [err |-> "ok", c |-> c]
Raise(e, c) == [err |-> e, c |-> c]

\* The name setter: it stores str(n) and refreshes the four derived fields.
name_setter_stale(c, n) == Ok([c EXCEPT !.name = StrV(PyStr(n))])

name_setter(c, n) ==
    LET _name == StrV(PyStr(n))
        t == parse_channel_name(_name)
    IN  Ok([c EXCEPT !.name = _name, !.ifo = t.ifo, !.system = t.system,
                     !.subsystem = t.subsystem, !.signal = t.signal])

\* The sample_rate setter.  A Unit instance is stored as it is, None stays
\* None, anything else goes through float() and becomes a quantity in hertz.
sample_rate_setter(c, rate) ==
    IF rate.kind = "unit" THEN Ok([c EXCEPT !.sample_rate = rate])
    ELSE IF IsNone(rate) THEN Ok([c EXCEPT !.sample_rate = NoneV])
    ELSE LET f == PyFloat(rate)
         IN  IF f.err # "ok" THEN Raise(f.err, c)
             ELSE Ok([c EXCEPT !.sample_rate = QuantityV(f.n, "Hz")])

\* aunits.Unit(u): a unit object is returned as it is, a string is looked up
\* ("" is the dimensionless unit) and an unknown one raises ValueError.
UnitNames == {<<>>, <<"m">>, <<"s">>}

AunitsUnit(u) ==
    CASE u.kind = "unit" -> [err |-> "ok", v |-> u]
      [] u.kind = "str" /\ u.s \in UnitNames ->
            [err |-> "ok", v |-> [kind |-> "unit", s |-> u.s, n |-> 0]]
      [] u.kind = "str" -> [err |-> "ValueError", v |-> NoneV]
      [] OTHER -> [err |-> "TypeError", v |-> NoneV]

unit_setter(c, u) ==
    IF IsNone(u) THEN Ok([c EXCEPT !.unit = NoneV])
    ELSE LET r == AunitsUnit(u)
         IN  IF r.err # "ok" THEN Raise(r.err, c)
             ELSE Ok([c EXCEPT !.unit = r.v])

\* The model setter: mdl and mdl.lower() or mdl
model_setter(c, mdl) ==
    IF ~PyTruth(mdl) THEN Ok([c EXCEPT !.model = mdl])
    ELSE IF mdl.kind # "str" THEN Raise("AttributeError", c)
    ELSE Ok([c EXCEPT !.model = PyOr(PyLower(mdl), mdl)])

\* The dtype setter: isinstance(type_, type) or TypeError.
dtype_setter(c, type_) ==
    IF type_.kind # "type" THEN Raise("TypeError", c)
    ELSE Ok([c EXCEPT !.dtype = type_])

\* The builtin `type`, which __init__ names where it assigns self.dtype.
BuiltinType == TypeV("type")

\* The exception that ends a run of calls: that of the first one to raise.
RECURSIVE FirstError(_)
FirstError(errs) ==
    IF errs = <<>> THEN "ok"
    ELSE IF Head(errs) # "ok" THEN Head(errs)
    ELSE FirstError(Tail(errs))

\* Channel.__init__: ch is a Channel or any other value.  The setters run in
\* the order of the source, each on the object the one before it left, and
\* the first one to raise ends the construction.  Whether a setter raises
\* depends on its argument alone.
Channel_init(ch, sample_rate, unit, dtype, model) ==
    LET isch == IsChannel(ch)
        sample_rate1 == IF isch THEN PyOr(sample_rate, ch.sample_rate)
                        ELSE sample_rate
        unit1 == IF isch THEN PyOr(unit, ch.unit) ELSE unit
        dtype1 == IF isch THEN PyOr(dtype, ch.dtype) ELSE dtype
        model1 == IF isch THEN PyOr(model, ch.model) ELSE model
        ch1 == IF isch THEN ch.name ELSE ch
    IN  [err |-> FirstError(<<name_setter(NewObject, ch1).err,
                              sample_rate_setter(NewObject, sample_rate1).err,
                              unit_setter(NewObject, unit1).err,
                              dtype_setter(NewObject, BuiltinType).err,
                              model_setter(NewObject, model1).err>>),
         c |-> model_setter(
                   dtype_setter(
                       unit_setter(
                           sample_rate_setter(
                               name_setter(NewObject, ch1).c,
                               sample_rate1).c,
                           unit1).c,
                       BuiltinType).c,
                   model1).c]

----------------------------------------------------------------------------
(* One program variable x that holds a Channel or nothing.  A Channel      *)
(* shares no state with any other object (every attribute is an immutable  *)
(* value and every setter touches self alone), so the life of one object   *)
(* stands for the life of each.  `assigned` remembers the value last       *)
(* assigned to the Channel's name; `last` is the latest call: its          *)
(* arguments, the Channel it was given as ch (NoObject when it was given   *)
(* none) and the exception it raised ("ok" when it returned).              *)

Call(op, err, src, n, sr, u, d, m) ==
    [op |-> op, err |-> err, src |-> src, name |-> n, sample_rate |-> sr,
     unit |-> u, dtype |-> d, model |-> m]

NoCall == Call("none", "ok", NoObject, NoneV, NoneV, NoneV, NoneV, NoneV)

\* x = Channel(ch, ...) with ch a name: x is bound only when no setter raised.
Construct(ch, sr, u, d, m) ==
    \E r \in {Channel_init(ch, sr, u, d, m)} :
        /\ chan' = IF r.err = "ok" THEN r.c ELSE chan
        /\ assigned' = IF r.err = "ok" THEN ch ELSE assigned
        /\ last' = Call("Construct", r.err, NoObject, ch, sr, u, d, m)
        /\ UNCHANGED <<pname, pres, clist, res, conn>>

\* x = Channel(x, ...): a new Channel made from the Channel x holds.
ConstructFrom(sr, u, d, m) ==
    /\ chan.live
    /\ \E r \in {Channel_init(chan, sr, u, d, m)} :
           /\ chan' = IF r.err = "ok" THEN r.c ELSE chan
           /\ assigned' = IF r.err = "ok" THEN chan.name ELSE assigned
           /\ last' = Call("ConstructFrom", r.err, chan, NoneV, sr, u, d, m)
    /\ UNCHANGED <<pname, pres, clist, res, conn>>

\* x.<attribute> = value: a setter that raises leaves the object as it was.
Assign(op, result, n, sr, u, d, m) ==
    /\ chan.live
    /\ \E r \in {result} :
          /\ chan' = r.c
          /\ last' = Call(op, r.err, NoObject, n, sr, u, d, m)
    /\ UNCHANGED <<pname, pres, clist, res, conn>>

SetName(n) ==
    /\ Assign("SetName", name_setter(chan, n), n, NoneV, NoneV, NoneV, NoneV)
    /\ assigned' = n

SetSampleRate(rate) ==
    /\ Assign("SetSampleRate", sample_rate_setter(chan, rate),
              NoneV, rate, NoneV, NoneV, NoneV)
    /\ UNCHANGED assigned

SetUnit(u) ==
    /\ Assign("SetUnit", unit_setter(chan, u), NoneV, NoneV, u, NoneV, NoneV)
    /\ UNCHANGED assigned

SetDtype(type_) ==
    /\ Assign("SetDtype", dtype_setter(chan, type_),
              NoneV, NoneV, NoneV, type_, NoneV)
    /\ UNCHANGED assigned

SetModel(mdl) ==
    /\ Assign("SetModel", model_setter(chan, mdl),
              NoneV, NoneV, NoneV, NoneV, mdl)
    /\ UNCHANGED assigned

----------------------------------------------------------------------------
(* class ChannelList(list) *)

\* find: the position, from 0, of the first Channel whose name equals the
\* argument; ValueError when the scan ends without one.  self is returned
\* beside the outcome: the loop only reads it.
RECURSIVE FindLast(_, _, _)
FindLast(self, name, i) ==
    IF i < 1 THEN [err |-> "ValueError", idx |-> -1, self |-> self]
    ELSE IF name = self[i].name
         THEN [err |-> "ok", idx |-> i - 1, self |-> self]
    ELSE FindLast(self, name, i - 1)

find_last(self, name) == FindLast(self, name, Len(self))

RECURSIVE FindFrom(_, _, _)
FindFrom(self, name, i) ==
    IF i > Len(self) THEN [err |-> "ValueError", idx |-> -1, self |-> self]
    ELSE IF name = self[i].name
         THEN [err |-> "ok", idx |-> i - 1, self |-> self]
    ELSE FindFrom(self, name, i + 1)

find(self, name) == FindFrom(self, name, 1)

\* Regular expressions, as far as the patterns of this model go: literal
\* characters, with \A in front and \Z behind as anchors.  A compiled pattern
\* is [kind |-> "pattern", s |-> its text, n |-> its flags]; the one flag is
\* re.IGNORECASE.
PatternV(s, flags) == [kind |-> "pattern", s |-> s, n |-> flags]
IGNORECASE == 2

StartsWithA(p) == Len(p) >= 2 /\ p[1] = "\\" /\ p[2] = "A"
EndsWithZ(p) == Len(p) >= 2 /\ p[Len(p) - 1] = "\\" /\ p[Len(p)] = "Z"

Literal(p) ==
    SubSeq(p, IF StartsWithA(p) THEN 3 ELSE 1,
              IF EndsWithZ(p) THEN Len(p) - 2 ELSE Len(p))

Fold(s, flags) ==
    IF flags = IGNORECASE THEN [i \in 1..Len(s) |-> LowerChar(s[i])] ELSE s

\* re.compile(p, flags).search(s) is not None
ReSearch(p, flags, s) ==
    \E k \in 1..(Len(s) + 1) :
        /\ k + Len(Literal(p)) - 1 <= Len(s)
        /\ SubSeq(Fold(s, flags), k, k + Len(Literal(p)) - 1)
               = Fold(Literal(p), flags)
        /\ StartsWithA(p) => k = 1
        /\ EndsWithZ(p) => k + Len(Literal(p)) - 1 = Len(s)

\* The exception of a list comprehension that calls float(entry.sample_rate)
\* on every entry of c: that of the first entry on which float() raises.
RECURSIVE FloatError(_)
FloatError(c) ==
    IF c = <<>> THEN "ok"
    ELSE IF PyFloat(Head(c).sample_rate).err # "ok"
         THEN PyFloat(Head(c).sample_rate).err
    ELSE FloatError(Tail(c))

ByName(c, p, flags) ==
    LET Test(entry) == ReSearch(p, flags, entry.name.s)
    IN  SelectSeq(c, Test)

ByRate(c, sample_rate) ==
    LET Test(entry) == PyFloat(entry.sample_rate).n = sample_rate.n
    IN  SelectSeq(c, Test)

ByRange(c, sample_range) ==
    LET Test(entry) == /\ sample_range[1] <= PyFloat(entry.sample_rate).n
                       /\ PyFloat(entry.sample_rate).n <= sample_range[2]
    IN  SelectSeq(c, Test)

\* sieve, after the name, its flags and its anchors are settled: the three
\* filters in turn.  sample_range is <<>> for None and <<low, high>> otherwise.
SieveRange(c, sample_range) ==
    IF sample_range = <<>> THEN [err |-> "ok", out |-> c]
    ELSE IF FloatError(c) # "ok" THEN [err |-> FloatError(c), out |-> <<>>]
    ELSE [err |-> "ok", out |-> ByRange(c, sample_range)]

SieveRate(c, sample_rate, sample_range) ==
    IF IsNone(sample_rate) THEN SieveRange(c, sample_range)
    ELSE IF FloatError(c) # "ok" THEN [err |-> FloatError(c), out |-> <<>>]
    ELSE SieveRange(ByRate(c, sample_rate), sample_range)

\* sieve.  With exact_match the anchoring raises AttributeError: None has no
\* startswith, and a str has startswith but no `endwith`.  Without it
\* re.compile(None) raises TypeError.
sieve(self, name, sample_rate, sample_range, exact_match) ==
    LET flags == IF name.kind = "pattern" THEN name.n ELSE 0
        name1 == IF name.kind = "pattern" THEN StrV(name.s) ELSE name
    IN  IF exact_match THEN [err |-> "AttributeError", out |-> <<>>]
        ELSE IF name1.kind # "str" THEN [err |-> "TypeError", out |-> <<>>]
        ELSE SieveRate(IF ~IsNone(name1) THEN ByName(self, name1.s, flags)
                       ELSE self,
                       sample_rate, sample_range)

\* The latest call on the list: its arguments and what it returned or raised.
Result(op, err, idx, out, n, sr, rg, ex) ==
    [op |-> op, err |-> err, idx |-> idx, out |-> out, name |-> n,
     sample_rate |-> sr, sample_range |-> rg, exact_match |-> ex]

NoResult == Result("none", "ok", -1, <<>>, NoneV, NoneV, <<>>, FALSE)

MaxList == 4

\* self.append(c), inherited from list.
AppendChannel(c) ==
    /\ Len(clist) < MaxList
    /\ clist' = Append(clist, c)
    /\ res' = NoResult
    /\ UNCHANGED <<pname, pres, chan, assigned, last, conn>>

Find(name) ==
    /\ \E r \in {find(clist, name)} :
          /\ clist' = r.self
          /\ res' = Result("find", r.err, r.idx, <<>>, name, NoneV, <<>>, FALSE)
    /\ UNCHANGED <<pname, pres, chan, assigned, last, conn>>

Sieve(name, sample_rate, sample_range, exact_match) ==
    /\ \E r \in {sieve(clist, name, sample_rate, sample_range, exact_match)} :
          res' = Result("sieve", r.err, -1, r.out, name, sample_rate,
                        sample_range, exact_match)
    /\ UNCHANGED <<pname, pres, chan, assigned, last, clist, conn>>

----------------------------------------------------------------------------
(* Channel.fetch_timeseries *)

\* nds.DEFAULT_HOSTS: observatory -> <<host, port>>.  A host name is kept
\* whole, as a str of one element.
DEFAULT_HOSTS ==
    (StrV(<<"H", "1">>) :> <<StrV(<<"nds.ligo-wa.caltech.edu">>), NumV(31200)>>)
    @@ (StrV(<<"L", "1">>) :> <<StrV(<<"nds.ligo-la.caltech.edu">>), NumV(31200)>>)

\* fetch_timeseries up to NDSConnection(host, port): the host and port it
\* connects with, or the KeyError of DEFAULT_HOSTS[self.ifo].
fetch_timeseries(self, host, port) ==
    IF ~PyTruth(host) \/ PyTruth(port)
    THEN IF self.ifo \notin DOMAIN DEFAULT_HOSTS
         THEN [err |-> "KeyError", host |-> NoneV, port |-> NoneV]
         ELSE [err |-> "ok",
               host |-> PyOr(host, DEFAULT_HOSTS[self.ifo][1]),
               port |-> PyOr(port, DEFAULT_HOSTS[self.ifo][2])]
    ELSE [err |-> "ok", host |-> host, port |-> port]

\* The latest fetch: the connection made (host, port, the channel asked
\* for), and the host and port the caller gave.
Fetched(op, err, h, p, n, ah, ap) ==
    [op |-> op, err |-> err, host |-> h, port |-> p, name |-> n,
     ahost |-> ah, aport |-> ap]

NoFetch == Fetched("none", "ok", NoneV, NoneV, NoneV, NoneV, NoneV)

Fetch(host, port) ==
    /\ chan.live
    /\ \E r \in {fetch_timeseries(chan, host, port)} :
          conn' = Fetched("fetch", r.err, r.host, r.port, chan.name, host, port)
    /\ UNCHANGED <<pname, pres, chan, assigned, last, clist, res>>

----------------------------------------------------------------------------
(* Initial states: every part of the program at rest. *)

ParserIdle == pname = NoneV /\ pres = NotParsed
ChannelIdle == chan = NoObject /\ assigned = NoneV /\ last = NoCall
ListIdle == clist = <<>> /\ res = NoResult
FetchIdle == conn = NoFetch

----------------------------------------------------------------------------
(* The parser alone: one call of parse_channel_name on each input. *)

ParseName ==
    /\ ~pres.done
    /\ pres' = [done |-> TRUE, out |-> parse_channel_name(pname)]
    /\ UNCHANGED <<pname, chan, assigned, last, clist, res, conn>>

InitParse ==
    /\ pname \in ParseInputs
    /\ pres = NotParsed
    /\ ChannelIdle /\ ListIdle /\ FetchIdle

NextParse == ParseName

SpecParse == InitParse /\ [][NextParse]_vars

----------------------------------------------------------------------------
(* A Channel under construction, copy construction and its five setters.  *)

NameInputs == {StrV(<<"L", "1", ":", "S", "-", "U", "_", "G">>), StrV(<<>>),
               NoneV, NumV(12)}
RateBasics == {NoneV, NumV(16), StrV(<<"a", "b", "c">>)}
DtypeInputs == {NoneV, TypeV("float"), TypeV("int"), StrV(<<"x">>)}

Init == ParserIdle /\ ChannelIdle /\ ListIdle /\ FetchIdle

Next ==
    \/ \E ch \in NameInputs, sr \in RateBasics, d \in DtypeInputs :
          Construct(ch, sr, NoneV, d, NoneV)
    \/ \E sr \in RateBasics, d \in DtypeInputs :
          ConstructFrom(sr, NoneV, d, NoneV)
    \/ \E n \in NameInputs : SetName(n)
    \/ \E rate \in RateBasics : SetSampleRate(rate)
    \/ SetUnit(StrV(<<"m">>))
    \/ \E type_ \in DtypeInputs : SetDtype(type_)
    \/ SetModel(StrV(<<"M">>))

Spec == Init /\ [][Next]_vars

----------------------------------------------------------------------------
(* Copy construction with every field omitted, falsy or set. *)

SourceName == StrV(<<"L", "1", ":", "S", "-", "U", "_", "G">>)

NextCopy ==
    \/ \E sr \in {NoneV, NumV(16)}, u \in {NoneV, StrV(<<"m">>)},
          m \in {NoneV, StrV(<<"M">>)} :
          Construct(SourceName, sr, u, NoneV, m)
    \/ SetDtype(TypeV("float"))
    \/ \E sr \in {NoneV, NumV(0), NumV(2048)},
          u \in {NoneV, StrV(<<>>), StrV(<<"s">>)},
          d \in {NoneV, TypeV("int")},
          m \in {NoneV, StrV(<<>>), StrV(<<"K">>)} :
          ConstructFrom(sr, u, d, m)

SpecCopy == Init /\ [][NextCopy]_vars

----------------------------------------------------------------------------
(* The sample rate: every kind of value, at construction, at copy          *)
(* construction and at assignment.                                         *)

RateInputs == {NoneV, NumV(-1), NumV(0), NumV(16), StrV(<<"1", "6">>),
               StrV(<<"a", "b", "c">>), StrV(<<>>), UnitV("m"), UnitV("Hz"),
               QuantityV(16, "Hz"), TypeV("float")}

NextRate ==
    \/ \E ch \in {SourceName, NoneV}, sr \in RateInputs :
          Construct(ch, sr, NoneV, NoneV, NoneV)
    \/ \E sr \in RateInputs : ConstructFrom(sr, NoneV, NoneV, NoneV)
    \/ \E rate \in RateInputs : SetSampleRate(rate)

SpecRate == Init /\ [][NextRate]_vars

----------------------------------------------------------------------------
(* A ChannelList that grows by append and is queried by find and sieve.    *)

ListNames == {StrV(<<"H", "1", ":", "P", "S", "L", "-", "I", "S", "S">>),
              StrV(<<"H", "1">>)}

ListChannels ==
    {Channel_init(StrV(<<"H", "1", ":", "P", "S", "L", "-", "I", "S", "S">>),
                  NumV(16), NoneV, NoneV, NoneV).c,
     Channel_init(StrV(<<"H", "1">>), NumV(256), NoneV, NoneV, NoneV).c,
     Channel_init(StrV(<<"H", "1">>), NoneV, NoneV, NoneV, NoneV).c}

FindInputs == ListNames \cup {StrV(<<"L", "1">>)}

SieveNames == {NoneV, StrV(<<"H", "1">>), StrV(<<"P", "S", "L">>),
               StrV(<<"\\", "A", "H", "1", "\\", "Z">>),
               PatternV(<<"p", "s", "l">>, IGNORECASE)}

NextList ==
    \/ \E c \in ListChannels : AppendChannel(c)
    \/ \E name \in FindInputs : Find(name)
    \/ \E name \in SieveNames, sample_rate \in {NoneV, NumV(16)},
          sample_range \in {<<>>, <<100, 5000>>}, exact_match \in BOOLEAN :
          Sieve(name, sample_rate, sample_range, exact_match)

SpecList == Init /\ [][NextList]_vars

----------------------------------------------------------------------------
(* A Channel whose name changes, and fetches from it.                      *)

FetchNames == {StrV(<<"H", "1", ":", "A">>), StrV(<<"L", "1", ":", "A">>),
               StrV(<<"X", "1", ":", "A">>), StrV(<<"A">>)}
HostInputs == {NoneV, StrV(<<"nds.example.org">>)}
PortInputs == {NoneV, NumV(8088)}

NextFetch ==
    \/ \E ch \in FetchNames : Construct(ch, NoneV, NoneV, NoneV, NoneV)
    \/ \E n \in FetchNames : SetName(n)
    \/ \E host \in HostInputs, port \in PortInputs : Fetch(host, port)

SpecFetch == Init /\ [][NextFetch]_vars

----------------------------------------------------------------------------
(* Claims *)

\* C1: in every state the four derived fields of a Channel are
\* parse_channel_name of its current name and the name is the string form of
\* the value last assigned to it; and no step changes a derived field unless
\* it sets the name (the name setter, or a constructor, which runs it).
Derived(c) == <<c.ifo, c.system, c.subsystem, c.signal>>

C1_Consistent ==
    chan.live =>
        /\ Derived(chan) = LET t == parse_channel_name(chan.name)
                           IN  <<t.ifo, t.system, t.subsystem, t.signal>>
        /\ chan.name = StrV(PyStr(assigned))

C1_OnlyNameChangesDerived ==
    Derived(chan') # Derived(chan) =>
        last'.op \in {"SetName", "Construct", "ConstructFrom"}

C1_DerivedFollowName == []C1_Consistent /\ [][C1_OnlyNameChangesDerived]_vars

\* C1 witness: the name was assigned after construction, it reads back as
\* assigned and the derived fields are those of "L1:S-U_G".
C1_Witness ==
    /\ last.op = "SetName"
    /\ assigned = SourceName
    /\ chan.name = SourceName
    /\ Derived(chan) = <<StrV(<<"L", "1">>), StrV(<<"S">>), StrV(<<"U">>),
                         StrV(<<"G">>)>>
    /\ ~IsNone(chan.unit)

\* C2: parse_channel_name returns four absent values for an absent or empty
\* name; otherwise the observatory is the leading letter and digit exactly
\* when the name begins with an uppercase letter, a digit and a colon, and
\* system, subsystem and signal are pieces 0, 1 and 2 of the remainder cut at
\* its first three delimiters, a missing piece being absent and whatever
\* follows the third delimiter being dropped.
HasObservatory(s) ==
    Len(s) >= 3 /\ SubSeq(s, 1, 3) \in {<<l, d, ":">> : l \in Upper, d \in Digit}

Remainder(s) == IF HasObservatory(s) THEN SubSeq(s, 4, Len(s)) ELSE s

Delims(r) == {i \in 1..Len(r) : r[i] = "-" \/ r[i] = "_"}

\* The position of the k-th delimiter of r, k >= 1.
NthDelim(r, k) ==
    CHOOSE d \in Delims(r) : Cardinality({e \in Delims(r) : e < d}) = k - 1

\* Piece k (from 0) of r: it starts after the k-th delimiter and ends before
\* the next one, or at the end of r when there is none.
Piece(r, k) ==
    IF Cardinality(Delims(r)) < k THEN NoneV
    ELSE StrV(SubSeq(r,
                     IF k = 0 THEN 1 ELSE NthDelim(r, k) + 1,
                     IF Cardinality(Delims(r)) > k THEN NthDelim(r, k + 1) - 1
                     ELSE Len(r)))

C2_ParseAsSpecified ==
    pres.done =>
        pres.out =
            IF IsNone(pname) \/ pname.s = <<>> THEN NoTags
            ELSE [ifo |-> IF HasObservatory(pname.s)
                          THEN StrV(SubSeq(pname.s, 1, 2)) ELSE NoneV,
                  system |-> Piece(Remainder(pname.s), 0),
                  subsystem |-> Piece(Remainder(pname.s), 1),
                  signal |-> Piece(Remainder(pname.s), 2)]

\* C2 witness: a parsed name with an observatory prefix and a fourth piece,
\* whose three kept pieces are not empty.
C2_Witness ==
    /\ pres.done
    /\ ~IsNone(pname)
    /\ HasObservatory(pname.s)
    /\ Cardinality(Delims(Remainder(pname.s))) >= 3
    /\ pres.out.ifo = StrV(<<"H", "1">>)
    /\ pres.out.system.s # <<>>
    /\ pres.out.subsystem.s # <<>>
    /\ pres.out.signal.s # <<>>

\* What a setter stores for a value it accepts.
StoredRate(v) == sample_rate_setter(NewObject, v).c.sample_rate
StoredUnit(v) == unit_setter(NewObject, v).c.unit
StoredModel(v) == model_setter(NewObject, v).c.model

\* C3: a Channel made from another Channel has the source's name and, for
\* each of sample_rate, unit, dtype and model, the caller's value when the
\* caller gave one (0 and "" included) and the source's value otherwise.
C3_CopyWithOverride ==
    (last.op = "ConstructFrom" /\ last.err = "ok") =>
        /\ chan.name = last.src.name
        /\ chan.sample_rate = IF IsNone(last.sample_rate)
                              THEN last.src.sample_rate
                              ELSE StoredRate(last.sample_rate)
        /\ chan.unit = IF IsNone(last.unit) THEN last.src.unit
                       ELSE StoredUnit(last.unit)
        /\ chan.dtype = IF IsNone(last.dtype) THEN last.src.dtype
                        ELSE last.dtype
        /\ chan.model = IF IsNone(last.model) THEN last.src.model
                        ELSE StoredModel(last.model)

\* C4: a dtype that is not a type is rejected with TypeError, at construction
\* as at assignment, and a type the caller gives is the dtype stored.
C4_DtypeValidated ==
    /\ (/\ last.op \in {"Construct", "ConstructFrom", "SetDtype"}
        /\ ~IsNone(last.dtype)
        /\ last.dtype.kind # "type") => last.err = "TypeError"
    /\ (/\ last.op \in {"Construct", "ConstructFrom", "SetDtype"}
        /\ last.dtype.kind = "type"
        /\ last.err = "ok") => chan.dtype = last.dtype

\* The spec's "frequency-quantity object": what the setter stores as given or
\* converts by its value, a unit object or a quantity.
IsQuantityObject(v) == v.kind \in {"unit", "quantity"}

\* C8: a sample rate that is neither absent, nor a frequency quantity, nor a
\* number fails with TypeError, at construction as at assignment, and leaves
\* the stored sample rate as it was.
BadRate(v) == ~IsNone(v) /\ ~IsQuantityObject(v) /\ PyFloat(v).err # "ok"

C8_Step ==
    (/\ last'.op \in {"Construct", "ConstructFrom", "SetSampleRate"}
     /\ BadRate(last'.sample_rate)) =>
        /\ last'.err = "TypeError"
        /\ chan'.sample_rate = chan.sample_rate

C8_BadRateIsTypeError == [][C8_Step]_vars

\* C9: the stored sample rate of a Channel is absent or a frequency quantity
\* whose value is not negative; a negative number is never stored.
C9_RateNonNegative ==
    chan.live =>
        \/ IsNone(chan.sample_rate)
        \/ chan.sample_rate.kind = "unit"
        \/ chan.sample_rate.kind = "quantity" /\ chan.sample_rate.n >= 0

\* A Channel's rate as a plain number of hertz, when it has one.
HasHertz(e) == e.sample_rate.kind = "quantity"
Hertz(e) == e.sample_rate.n

\* C5: without exact_match, sieve returns the elements that pass every
\* predicate whose parameter was given (the name pattern found anywhere in
\* the name, the rate equal to sample_rate, the rate within
\* [low, high]), in their order; a predicate whose parameter is absent is
\* skipped, so that sieve() returns a copy of the whole list.
C5_Passes(e) ==
    /\ ~IsNone(res.name) =>
           ReSearch(res.name.s, res.name.n, e.name.s)
    /\ ~IsNone(res.sample_rate) =>
           HasHertz(e) /\ Hertz(e) = res.sample_rate.n
    /\ res.sample_range # <<>> =>
           /\ HasHertz(e)
           /\ res.sample_range[1] <= Hertz(e)
           /\ Hertz(e) <= res.sample_range[2]

C5_SieveSelects ==
    (res.op = "sieve" /\ ~res.exact_match) =>
        /\ res.err = "ok"
        /\ res.out = SelectSeq(clist, C5_Passes)

\* C6: with exact_match, sieve returns the elements whose whole name matches
\* the pattern: on a list that holds a Channel named "H1:PSL-ISS" and one
\* named "H1", sieve(name="H1", exact_match=True) returns the Channels named
\* "H1" and no other.
C6_WholeName(e) == e.name.s = Literal(res.name.s)

C6_ExactMatch ==
    (/\ res.op = "sieve"
     /\ res.exact_match
     /\ res.name.kind = "str"
     /\ \E i \in 1..Len(clist) : clist[i].name.s = <<"H", "1">>
     /\ \E i \in 1..Len(clist) : clist[i].name.s # <<"H", "1">>) =>
        /\ res.err = "ok"
        /\ res.out = SelectSeq(clist, C6_WholeName)

\* C7: find returns the smallest index whose element has the name asked for
\* and raises ValueError when no element has it, the empty list included;
\* and a step that is a find leaves the list as it was.
C7_Matches == {i \in 1..Len(clist) : clist[i].name = res.name}

C7_FirstMatch ==
    res.op = "find" =>
        IF C7_Matches = {} THEN res.err = "ValueError"
        ELSE /\ res.err = "ok"
             /\ res.idx + 1 \in C7_Matches
             /\ \A j \in C7_Matches : res.idx + 1 <= j

C7_ListKept == res'.op = "find" => clist' = clist

C7_FindReturnsFirst == []C7_FirstMatch /\ [][C7_ListKept]_vars

\* C7 witness: a find that returned an index past 0 on a list that holds the
\* name twice.
C7_Witness ==
    /\ res.op = "find"
    /\ res.err = "ok"
    /\ res.idx >= 1
    /\ Cardinality(C7_Matches) >= 2

\* C10: fetch_timeseries connects with the caller's host and port where the
\* caller gave them and with the DEFAULT_HOSTS entry of the channel's
\* observatory where not; it looks into DEFAULT_HOSTS only when one of the
\* two is missing, so a call that gives both connects whatever the
\* observatory, and a call that gives only the host connects with the
\* default port.
C10_Observatory == parse_channel_name(conn.name).ifo

C10_FetchDefaults ==
    conn.op = "fetch" =>
        IF ~IsNone(conn.ahost) /\ ~IsNone(conn.aport)
        THEN /\ conn.err = "ok"
             /\ conn.host = conn.ahost
             /\ conn.port = conn.aport
        ELSE C10_Observatory \in DOMAIN DEFAULT_HOSTS =>
                 /\ conn.err = "ok"
                 /\ conn.host = IF IsNone(conn.ahost)
                                THEN DEFAULT_HOSTS[C10_Observatory][1]
                                ELSE conn.ahost
                 /\ conn.port = IF IsNone(conn.aport)
                                THEN DEFAULT_HOSTS[C10_Observatory][2]
                                ELSE conn.aport

====
